---- MODULE Spec2Model ----
(***************************************************************************)
(* Model of applications/robustness.py: CIFAR-10 training under an         *)
(* epsilon-adversarial loss constraint.                                    *)
(*                                                                         *)
(* Three phases of the script are modelled, each by its own specification: *)
(*   SpecData   the label-stratified subset selection (lines 50-74),       *)
(*   SpecTrain  robustLoss.adversarialLoss, robustLoss.obj_fun and         *)
(*              validation_hook driven by the primal-dual solver           *)
(*              (lines 80-194),                                            *)
(*   SpecTest   the test sweep over perturbation magnitudes                *)
(*              (lines 202-250).                                           *)
(* Tensors, losses and accuracies are numerical black boxes of the         *)
(* libraries; the model keeps what the script itself decides: index        *)
(* arithmetic, the model's train/eval flag, autograd's grad mode, the      *)
(* parameters' .grad slots, counters and return values.                    *)
(***************************************************************************)
EXTENDS Integers, Sequences, FiniteSets, TLC

(***************************************************************************)
(* Sizes.  The script's sizes (10 labels, 4900 + 100 samples per class,    *)
(* 50000 images, 400 iterations, batches of 256) are scaled down; every    *)
(* formula below is stated in terms of these names, not of their values.   *)
(***************************************************************************)
NumLabels == 2
n_train == 2
n_valid == 1
DatasetSize == 7
RngModulus == 4
MaxIterations == 11
NumParams == 1
MaxBatchSize == 3
MaxLen == 4
adv_epoch == 10
NumEps == 7

Labels == 0 .. (NumLabels - 1)
Runs == 1 .. 2
Params == 1 .. NumParams
None == "None"

VARIABLES
    \* ---- subset selection (SpecData)
    target,         \* target[i]: label of dataset index i
    run,            \* which execution of the script is under way
    pcData,         \* next line of the data section
    np_random,      \* state of numpy's global generator in this execution
    label_idx,      \* per-label index arrays
    train_list,     \* train_subset as bound on line 57 (list of arrays)
    train_subset,   \* train_subset as bound on line 58 (flattened array)
    valid_list,     \* valid_subset as bound on line 70
    valid_subset,   \* valid_subset as bound on line 71
    finished,       \* the subsets each finished execution produced
    \* ---- training (SpecTrain)
    pc,             \* position of the control flow
    iteration,      \* solver iterations completed
    training,       \* problem.model's train/eval flag (TRUE: training mode)
    grad_enabled,   \* torch.is_grad_enabled()
    no_grad_prev,   \* the grad mode a torch.no_grad() block restores on exit
    grad,           \* grad[p]: the .grad slot of parameter p
    saved_grad,     \* adversarialLoss's local saved_grad
    entry_grad,     \* history: grad at entry to adversarialLoss
    primal,         \* adversarialLoss's argument
    x_processed,    \* adversarialLoss's local x_processed
    forward,        \* history: how the loss of the current call was computed
    n_loss,         \* history: losses computed in the current call
    attack_log,     \* history: the attack of the current call
    lambdas,        \* problem.lambdas
    rhs,            \* problem.rhs
    constraints,    \* problem.constraints
    entry_problem,  \* history: <<lambdas, rhs, constraints>> at hook entry
    cur_adv_epoch,  \* validation_hook's local _adv_epoch
    hook_calls,     \* history: number of validation_hook calls so far
    len_validset,   \* len(validset)
    batch_size,     \* problem.batch_size
    batch_idx,      \* batch boundaries
    batch_pos,      \* position of the loop over zip(batch_idx, batch_idx[1:])
    acc,            \* validation_hook's acc (as a count of correct samples)
    acc_adv,        \* validation_hook's acc_adv (count of correct samples)
    eval_log,       \* history: mode of every forward pass of the hook
    output,         \* what the last validation_hook call printed
    hook_ret,       \* what the last validation_hook call returned
    stopped_by_hook,\* the solver stopped because the hook returned True
    last_call,      \* history: the call that returned last
    \* ---- test sweep (SpecTest)
    pcTest,
    len_testset,    \* len(testset)
    n_total,
    acc_test,
    acc_adv_test,   \* the module-level acc_adv array of line 224
    success_adv,
    n_adv           \* history: samples accumulated per magnitude

dataVars == <<target, run, pcData, np_random, label_idx, train_list,
              train_subset, valid_list, valid_subset, finished>>
callVars == <<saved_grad, entry_grad, primal, x_processed, forward, n_loss,
              attack_log>>
problemVars == <<lambdas, rhs, constraints>>
hookVars == <<entry_problem, cur_adv_epoch, hook_calls, acc, acc_adv,
              eval_log, output, hook_ret>>
sizeVars == <<len_validset, batch_size>>
loopVars == <<batch_idx, batch_pos>>
testVars == <<pcTest, len_testset, n_total, acc_test, acc_adv_test,
              success_adv, n_adv>>
trainVars == <<pc, iteration, training, grad_enabled, no_grad_prev, grad,
               callVars, problemVars, hookVars, stopped_by_hook, last_call>>
vars == <<dataVars, trainVars, sizeVars, loopVars, testVars>>

----------------------------------------------------------------------------
(***************************************************************************)
(* Helpers: numpy and Python sequence operations.                          *)
(***************************************************************************)
Min(a, b) == IF a < b THEN a ELSE b

Range(s) == {s[k] : k \in DOMAIN s}

\* Python's s[a:b] for 0 <= a <= b: the bounds are clamped to len(s).
Slice(s, a, b) == SubSeq(s, Min(a, Len(s)) + 1, Min(b, Len(s)))

RECURSIVE Concat(_)
Concat(rows) == IF rows = <<>> THEN <<>> ELSE Head(rows) \o Concat(Tail(rows))

\* np.flatnonzero(t == label): the indices carrying the label, ascending.
flatnonzero(t, label) ==
    LET F[i \in 0 .. DatasetSize] ==
            IF i = 0 THEN <<>>
            ELSE IF t[i - 1] = label THEN Append(F[i - 1], i - 1) ELSE F[i - 1]
    IN  F[DatasetSize]

\* Python's range(0, 10), as a sequence.
LabelRange == [k \in 1 .. NumLabels |-> k - 1]

(***************************************************************************)
(* numpy's generator.  The Mersenne Twister is replaced by a small linear  *)
(* congruential generator: what matters is that the stream is a function   *)
(* of the generator's state alone.  RandomState(seed) builds a generator   *)
(* whose state is set by the seed; permutation() is numpy's Fisher-Yates   *)
(* shuffle of a copy, drawing j in [0, i] for i = n-1 down to 1.           *)
(***************************************************************************)
NextState(s) == (5 * s + 3) % RngModulus

RandomState(seed) == seed % RngModulus

Swap(arr, i, j) == [arr EXCEPT ![i] = arr[j], ![j] = arr[i]]

RECURSIVE Shuffle(_, _, _)
Shuffle(arr, i, s) ==
    IF i < 1 THEN arr
    ELSE LET s2 == NextState(s)
             j == s2 % (i + 1)
         IN  Shuffle(Swap(arr, i + 1, j + 1), i - 1, s2)

permutation(s, arr) == Shuffle(arr, Len(arr) - 1, s)

\* The generator line 56 permutes with: a fresh one, seeded with 42.
GlobalGenerator(global) == global
PermutationGenerator(global) == RandomState(42)

\* Line 57 and line 70: the per-class slices.
TrainSliceLong(idx) == Slice(idx, 0, n_train + 1)
TrainSlice(idx) == Slice(idx, 0, n_train)

ValidSliceFromZero(idx) == Slice(idx, 0, n_valid)
ValidSlice(idx) == Slice(idx, n_train, n_train + n_valid)

\* np.array(rows).flatten(): rows of one length give a 2-d array, flattened
\* to the concatenation; rows of different lengths give a 1-d array of
\* objects whose entries are the rows themselves.
Rectangular(rows) == \A i, j \in DOMAIN rows : Len(rows[i]) = Len(rows[j])
Flatten(rows) ==
    IF Rectangular(rows) THEN [ragged |-> FALSE, data |-> Concat(rows)]
    ELSE [ragged |-> TRUE, data |-> rows]

\* The dataset indices an array built by Flatten holds.
Indices(sub) ==
    IF sub.ragged THEN UNION {Range(sub.data[k]) : k \in DOMAIN sub.data}
    ELSE Range(sub.data)

NoArray == [ragged |-> FALSE, data |-> <<>>]

----------------------------------------------------------------------------
(***************************************************************************)
(* Subset selection, lines 53-71.                                          *)
(***************************************************************************)
\* Line 55.
D_LabelIdx ==
    /\ pcData = "l55"
    /\ label_idx' = [k \in 1 .. NumLabels |-> flatnonzero(target, LabelRange[k])]
    /\ pcData' = "l56"
    /\ UNCHANGED <<target, run, np_random, train_list, train_subset,
                   valid_list, valid_subset, finished>>
    /\ UNCHANGED <<trainVars, sizeVars, loopVars, testVars>>

\* Line 56: every class is permuted by a generator of its own.
D_Permute ==
    /\ pcData = "l56"
    /\ label_idx' = [k \in 1 .. NumLabels |->
                        permutation(PermutationGenerator(np_random), label_idx[k])]
    /\ pcData' = "l57"
    /\ UNCHANGED <<target, run, np_random, train_list, train_subset,
                   valid_list, valid_subset, finished>>
    /\ UNCHANGED <<trainVars, sizeVars, loopVars, testVars>>

\* Line 57.
D_TrainList ==
    /\ pcData = "l57"
    /\ train_list' = [k \in 1 .. NumLabels |-> TrainSlice(label_idx[k])]
    /\ pcData' = "l58"
    /\ UNCHANGED <<target, run, np_random, label_idx, train_subset,
                   valid_list, valid_subset, finished>>
    /\ UNCHANGED <<trainVars, sizeVars, loopVars, testVars>>

\* Line 58.
D_TrainFlatten ==
    /\ pcData = "l58"
    /\ train_subset' = Flatten(train_list)
    /\ pcData' = "l70"
    /\ UNCHANGED <<target, run, np_random, label_idx, train_list,
                   valid_list, valid_subset, finished>>
    /\ UNCHANGED <<trainVars, sizeVars, loopVars, testVars>>

\* Line 70.
D_ValidList ==
    /\ pcData = "l70"
    /\ valid_list' = [k \in 1 .. NumLabels |-> ValidSlice(label_idx[k])]
    /\ pcData' = "l71"
    /\ UNCHANGED <<target, run, np_random, label_idx, train_list,
                   train_subset, valid_subset, finished>>
    /\ UNCHANGED <<trainVars, sizeVars, loopVars, testVars>>

\* Line 71.
D_ValidFlatten ==
    /\ pcData = "l71"
    /\ valid_subset' = Flatten(valid_list)
    /\ finished' = Append(finished, [train_subset |-> train_subset,
                                     valid_subset |-> valid_subset',
                                     np_random |-> np_random])
    /\ pcData' = "done"
    /\ UNCHANGED <<target, run, np_random, label_idx, train_list,
                   train_subset, valid_list>>
    /\ UNCHANGED <<trainVars, sizeVars, loopVars, testVars>>

\* Anything else that draws from numpy's global generator (the random flips
\* and crops of the training transform) moves the global state on.
D_UseGlobalRandom ==
    /\ pcData # "done"
    /\ np_random' = NextState(np_random)
    /\ UNCHANGED <<target, run, pcData, label_idx, train_list, train_subset,
                   valid_list, valid_subset, finished>>
    /\ UNCHANGED <<trainVars, sizeVars, loopVars, testVars>>

\* The script is run again on the same dataset; the new process starts with
\* whatever global random state it happens to have.
D_Rerun ==
    /\ pcData = "done"
    /\ run = 1
    /\ run' = 2
    /\ np_random' \in 0 .. (RngModulus - 1)
    /\ pcData' = "l55"
    /\ label_idx' = <<>>
    /\ train_list' = <<>>
    /\ valid_list' = <<>>
    /\ train_subset' = NoArray
    /\ valid_subset' = NoArray
    /\ UNCHANGED <<target, finished>>
    /\ UNCHANGED <<trainVars, sizeVars, loopVars, testVars>>

----------------------------------------------------------------------------
(***************************************************************************)
(* Batching, lines 148-150 and 218-220.                                    *)
(***************************************************************************)
\* np.arange(0, N + 1, B): 0, B, 2B, ... below N + 1.
arange(N, B) == [k \in 1 .. (N \div B) + 1 |-> (k - 1) * B]

BatchBoundariesNoTail(N, B) == arange(N, B)
BatchBoundaries(N, B) ==
    LET a == arange(N, B)
    IN  IF a[Len(a)] < N THEN Append(a, N) ELSE a

NumBatches == Len(batch_idx) - 1
batch_start == batch_idx[batch_pos]
batch_end == batch_idx[batch_pos + 1]

----------------------------------------------------------------------------
(***************************************************************************)
(* The learning problem, lines 80-139.                                     *)
(***************************************************************************)
\* A .grad slot holds None or a tensor; two tensor values are told apart.
GradVals == {None, "g0", "g1"}
Grads == [Params -> GradVals]

NoForward == [input |-> "none", training |-> FALSE, grad_enabled |-> FALSE]
NoAttack == [ran |-> FALSE, training |-> FALSE, wrote |-> FALSE]
NoLocals == [p \in Params |-> None]

\* model.eval() and model.train(): the value given to the train/eval flag.
ModelEval(flag) == FALSE

ModelTrainNoOp(flag) == flag
ModelTrain(flag) == TRUE

\* torch.no_grad().__enter__: the grad mode inside the block.
NoGradLeavesMode(mode) == mode
NoGrad(mode) == FALSE

\* Lines 122-123: what p.grad is bound to.
KeepAttackGrad(saved, current) == current
RestoredGrad(saved, current) == saved

\* Lines 127 and 131: what the forward pass is fed.
ForwardInput(x, adv) == adv

\* Lines 102-107: one forward pass in the current mode; no mode, gradient or
\* problem state is written.
ObjFun ==
    /\ pc = "solve"
    /\ last_call' = "obj_fun"
    /\ UNCHANGED <<pc, iteration, training, grad_enabled, no_grad_prev, grad,
                   callVars, problemVars, hookVars, stopped_by_hook>>
    /\ UNCHANGED <<dataVars, sizeVars, loopVars, testVars>>

\* Lines 109-110: a call of adversarialLoss(batch_idx, primal).
AL_Enter ==
    /\ pc = "solve"
    /\ \E p \in BOOLEAN : primal' = p
    /\ entry_grad' = grad
    /\ saved_grad' = NoLocals
    /\ x_processed' = "none"
    /\ forward' = NoForward
    /\ n_loss' = 0
    /\ attack_log' = NoAttack
    /\ pc' = "al_113"
    /\ UNCHANGED <<iteration, training, grad_enabled, no_grad_prev, grad,
                   problemVars, hookVars, stopped_by_hook, last_call>>
    /\ UNCHANGED <<dataVars, sizeVars, loopVars, testVars>>

\* Line 113.
AL_Eval ==
    /\ pc = "al_113"
    /\ training' = ModelEval(training)
    /\ pc' = "al_116"
    /\ UNCHANGED <<iteration, grad_enabled, no_grad_prev, grad, callVars,
                   problemVars, hookVars, stopped_by_hook, last_call>>
    /\ UNCHANGED <<dataVars, sizeVars, loopVars, testVars>>

\* Line 116.
AL_SaveGrad ==
    /\ pc = "al_116"
    /\ saved_grad' = grad
    /\ pc' = "al_119"
    /\ UNCHANGED <<iteration, training, grad_enabled, no_grad_prev, grad,
                   entry_grad, primal, x_processed, forward, n_loss, attack_log,
                   problemVars, hookVars, stopped_by_hook, last_call>>
    /\ UNCHANGED <<dataVars, sizeVars, loopVars, testVars>>

\* Line 119: the attack backpropagates through the model, so it may leave
\* anything in the parameters' .grad slots.
AL_Attack ==
    /\ pc = "al_119"
    /\ \E g \in Grads :
          /\ grad' = g
          /\ attack_log' = [ran |-> TRUE, training |-> training,
                            wrote |-> g # grad]
    /\ x_processed' = "adversarial"
    /\ pc' = "al_122"
    /\ UNCHANGED <<iteration, training, grad_enabled, no_grad_prev,
                   saved_grad, entry_grad, primal, forward, n_loss,
                   problemVars, hookVars, stopped_by_hook, last_call>>
    /\ UNCHANGED <<dataVars, sizeVars, loopVars, testVars>>

\* Lines 122-123.
AL_Restore ==
    /\ pc = "al_122"
    /\ grad' = [p \in Params |-> RestoredGrad(saved_grad[p], grad[p])]
    /\ pc' = "al_125"
    /\ UNCHANGED <<iteration, training, grad_enabled, no_grad_prev, callVars,
                   problemVars, hookVars, stopped_by_hook, last_call>>
    /\ UNCHANGED <<dataVars, sizeVars, loopVars, testVars>>

\* Lines 125-126.
AL_PrimalTrain ==
    /\ pc = "al_125"
    /\ primal
    /\ training' = ModelTrain(training)
    /\ pc' = "al_127"
    /\ UNCHANGED <<iteration, grad_enabled, no_grad_prev, grad, callVars,
                   problemVars, hookVars, stopped_by_hook, last_call>>
    /\ UNCHANGED <<dataVars, sizeVars, loopVars, testVars>>

\* Lines 127-128.
AL_PrimalForward ==
    /\ pc = "al_127"
    /\ forward' = [input |-> ForwardInput("clean", x_processed),
                   training |-> training, grad_enabled |-> grad_enabled]
    /\ n_loss' = n_loss + 1
    /\ pc' = "al_135"
    /\ UNCHANGED <<iteration, training, grad_enabled, no_grad_prev, grad,
                   saved_grad, entry_grad, primal, x_processed, attack_log,
                   problemVars, hookVars, stopped_by_hook, last_call>>
    /\ UNCHANGED <<dataVars, sizeVars, loopVars, testVars>>

\* Lines 129-130: entering the no_grad block.
AL_DualNoGrad ==
    /\ pc = "al_125"
    /\ ~primal
    /\ no_grad_prev' = grad_enabled
    /\ grad_enabled' = NoGrad(grad_enabled)
    /\ pc' = "al_131"
    /\ UNCHANGED <<iteration, training, grad, callVars, problemVars, hookVars,
                   stopped_by_hook, last_call>>
    /\ UNCHANGED <<dataVars, sizeVars, loopVars, testVars>>

\* Lines 131-132.
AL_DualForward ==
    /\ pc = "al_131"
    /\ forward' = [input |-> ForwardInput("clean", x_processed),
                   training |-> training, grad_enabled |-> grad_enabled]
    /\ n_loss' = n_loss + 1
    /\ pc' = "al_133"
    /\ UNCHANGED <<iteration, training, grad_enabled, no_grad_prev, grad,
                   saved_grad, entry_grad, primal, x_processed, attack_log,
                   problemVars, hookVars, stopped_by_hook, last_call>>
    /\ UNCHANGED <<dataVars, sizeVars, loopVars, testVars>>

\* Leaving the no_grad block, then line 133.
AL_DualTrain ==
    /\ pc = "al_133"
    /\ grad_enabled' = no_grad_prev
    /\ training' = ModelTrain(training)
    /\ pc' = "al_135"
    /\ UNCHANGED <<iteration, no_grad_prev, grad, callVars, problemVars,
                   hookVars, stopped_by_hook, last_call>>
    /\ UNCHANGED <<dataVars, sizeVars, loopVars, testVars>>

\* Line 135.
AL_Return ==
    /\ pc = "al_135"
    /\ last_call' = IF primal THEN "adversarialLoss primal"
                    ELSE "adversarialLoss dual"
    /\ pc' = "solve"
    /\ UNCHANGED <<iteration, training, grad_enabled, no_grad_prev, grad,
                   callVars, problemVars, hookVars, stopped_by_hook>>
    /\ UNCHANGED <<dataVars, sizeVars, loopVars, testVars>>

----------------------------------------------------------------------------
(***************************************************************************)
(* validation_hook, lines 144-178.                                         *)
(***************************************************************************)
\* Line 178.
ReturnTrueOnCleanReport(printed) == printed = "clean"
HookReturn(printed) == FALSE

\* Lines 145-154: a call of validation_hook(problem, solver_state).
VH_Enter ==
    /\ pc = "solve"
    /\ cur_adv_epoch' = adv_epoch
    /\ batch_idx' = BatchBoundaries(len_validset, batch_size)
    /\ batch_pos' = 1
    /\ acc' = 0
    /\ acc_adv' = 0
    /\ hook_calls' = hook_calls + 1
    /\ entry_problem' = <<lambdas, rhs, constraints>>
    /\ eval_log' = {}
    /\ output' = "none"
    /\ pc' = "vh_155"
    /\ UNCHANGED <<iteration, training, grad_enabled, no_grad_prev, grad,
                   callVars, problemVars, hook_ret, stopped_by_hook, last_call>>
    /\ UNCHANGED <<dataVars, sizeVars, testVars>>

\* Line 155.
VH_Eval ==
    /\ pc = "vh_155"
    /\ training' = ModelEval(training)
    /\ pc' = "vh_156"
    /\ UNCHANGED <<iteration, grad_enabled, no_grad_prev, grad, callVars,
                   problemVars, hookVars, stopped_by_hook, last_call>>
    /\ UNCHANGED <<dataVars, sizeVars, loopVars, testVars>>

\* Lines 156-167: one batch.  The no_grad blocks are entered and left inside
\* the step; the attack runs only when _adv_epoch is 1, and then may leave
\* anything in the parameters' .grad slots.
VH_Batch ==
    /\ pc = "vh_156"
    /\ batch_pos <= NumBatches
    /\ \E correct \in {0, batch_end - batch_start} :
          acc' = acc + correct
    /\ \E correct_adv \in IF cur_adv_epoch = 1
                          THEN {0, batch_end - batch_start} ELSE {0} :
          acc_adv' = acc_adv + correct_adv
    /\ \E g \in IF cur_adv_epoch = 1 THEN Grads ELSE {grad} :
          grad' = g
    /\ eval_log' = eval_log \cup
                     {[training |-> training,
                       grad_enabled |-> NoGrad(grad_enabled),
                       attacked |-> cur_adv_epoch = 1]}
    /\ batch_pos' = batch_pos + 1
    /\ UNCHANGED <<pc, iteration, training, grad_enabled, no_grad_prev,
                   callVars, problemVars, entry_problem, cur_adv_epoch,
                   hook_calls, output, hook_ret, stopped_by_hook, last_call>>
    /\ UNCHANGED <<dataVars, sizeVars, batch_idx, testVars>>

\* Line 168, once the loop is exhausted.
VH_Train ==
    /\ pc = "vh_156"
    /\ batch_pos > NumBatches
    /\ training' = ModelTrain(training)
    /\ pc' = "vh_171"
    /\ UNCHANGED <<iteration, grad_enabled, no_grad_prev, grad, callVars,
                   problemVars, hookVars, stopped_by_hook, last_call>>
    /\ UNCHANGED <<dataVars, sizeVars, loopVars, testVars>>

\* Lines 171-176.
VH_Report ==
    /\ pc = "vh_171"
    /\ output' = IF cur_adv_epoch > 1 THEN "clean" ELSE "adversarial"
    /\ cur_adv_epoch' = IF cur_adv_epoch > 1 THEN cur_adv_epoch - 1
                        ELSE adv_epoch
    /\ pc' = "vh_178"
    /\ UNCHANGED <<iteration, training, grad_enabled, no_grad_prev, grad,
                   callVars, problemVars, entry_problem, hook_calls, acc,
                   acc_adv, eval_log, hook_ret, stopped_by_hook, last_call>>
    /\ UNCHANGED <<dataVars, sizeVars, loopVars, testVars>>

\* Line 178: the locals die with the call.
VH_Return ==
    /\ pc = "vh_178"
    /\ hook_ret' = HookReturn(output)
    /\ last_call' = "validation_hook"
    /\ cur_adv_epoch' = 0
    /\ acc' = 0
    /\ acc_adv' = 0
    /\ batch_idx' = <<>>
    /\ batch_pos' = 0
    /\ pc' = "hooked"
    /\ UNCHANGED <<iteration, training, grad_enabled, no_grad_prev, grad,
                   callVars, problemVars, entry_problem, hook_calls, eval_log,
                   output, stopped_by_hook>>
    /\ UNCHANGED <<dataVars, sizeVars, testVars>>

----------------------------------------------------------------------------
(***************************************************************************)
(* The solver (csl.SimultaneousPrimalDual, configured on lines 182-194):   *)
(* between the calls above it backpropagates into the parameters' .grad    *)
(* slots and moves the dual variables; after every hook call it stops if   *)
(* the hook returned True or the iterations are used up.                   *)
(***************************************************************************)
S_Backward ==
    /\ pc = "solve"
    /\ \E g \in [Params -> GradVals \ {None}] : g # grad /\ grad' = g
    /\ UNCHANGED <<pc, iteration, training, grad_enabled, no_grad_prev,
                   callVars, problemVars, hookVars, stopped_by_hook, last_call>>
    /\ UNCHANGED <<dataVars, sizeVars, loopVars, testVars>>

S_DualStep ==
    /\ pc = "solve"
    /\ \E l \in {0, 1} : <<l>> # lambdas /\ lambdas' = <<l>>
    /\ UNCHANGED <<pc, iteration, training, grad_enabled, no_grad_prev, grad,
                   callVars, rhs, constraints, hookVars, stopped_by_hook,
                   last_call>>
    /\ UNCHANGED <<dataVars, sizeVars, loopVars, testVars>>

S_AfterHook ==
    /\ pc = "hooked"
    /\ iteration' = iteration + 1
    /\ stopped_by_hook' = hook_ret
    /\ pc' = IF hook_ret \/ iteration + 1 >= MaxIterations THEN "solved"
             ELSE "solve"
    /\ UNCHANGED <<training, grad_enabled, no_grad_prev, grad, callVars,
                   problemVars, hookVars, last_call>>
    /\ UNCHANGED <<dataVars, sizeVars, loopVars, testVars>>

----------------------------------------------------------------------------
(***************************************************************************)
(* The test sweep, lines 202-250.                                          *)
(***************************************************************************)
EpsIndex == 0 .. (NumEps - 1)

\* Line 207.
T_Eval ==
    /\ pcTest = "l207"
    /\ training' = ModelEval(training)
    /\ pcTest' = "l215"
    /\ UNCHANGED <<pc, iteration, grad_enabled, no_grad_prev, grad, callVars,
                   problemVars, hookVars, stopped_by_hook, last_call>>
    /\ UNCHANGED <<dataVars, sizeVars, loopVars, len_testset, n_total,
                   acc_test, acc_adv_test, success_adv, n_adv>>

\* Lines 215-225.
T_Prepare ==
    /\ pcTest = "l215"
    /\ batch_idx' = BatchBoundaries(len_testset, batch_size)
    /\ batch_pos' = 1
    /\ n_total' = 0
    /\ acc_test' = 0
    /\ acc_adv_test' = [ii \in EpsIndex |-> 0]
    /\ success_adv' = [ii \in EpsIndex |-> 0]
    /\ n_adv' = [ii \in EpsIndex |-> 0]
    /\ pcTest' = "l227"
    /\ UNCHANGED <<dataVars, trainVars, sizeVars, len_testset>>

\* Lines 227-241: one batch.  The classifier's answers are inputs: the batch
\* is classified correctly or not, and stays correctly classified under the
\* magnitudes below `robust`, the attack succeeding from there on.
T_Batch ==
    /\ pcTest = "l227"
    /\ batch_pos <= NumBatches
    /\ \E correct \in {0, batch_end - batch_start} :
          acc_test' = acc_test + correct
    /\ \E robust \in 0 .. NumEps :
          /\ acc_adv_test' =
                [ii \in EpsIndex |->
                    acc_adv_test[ii]
                      + (IF ii < robust THEN batch_end - batch_start ELSE 0)]
          /\ success_adv' =
                [ii \in EpsIndex |->
                    success_adv[ii]
                      + (IF ii < robust THEN 0 ELSE batch_end - batch_start)]
    /\ n_adv' = [ii \in EpsIndex |-> n_adv[ii] + (batch_end - batch_start)]
    /\ n_total' = n_total + (batch_end - batch_start)
    /\ batch_pos' = batch_pos + 1
    /\ UNCHANGED <<dataVars, trainVars, sizeVars, batch_idx, pcTest,
                   len_testset>>

\* Lines 243-250: the sums are divided by n_total and printed.
T_Report ==
    /\ pcTest = "l227"
    /\ batch_pos > NumBatches
    /\ n_total # 0
    /\ pcTest' = "done"
    /\ UNCHANGED <<dataVars, trainVars, sizeVars, loopVars, len_testset,
                   n_total, acc_test, acc_adv_test, success_adv, n_adv>>

----------------------------------------------------------------------------
(***************************************************************************)
(* Initial states and specifications.                                      *)
(***************************************************************************)
DataIdle ==
    /\ run = 1
    /\ pcData = "l55"
    /\ label_idx = <<>>
    /\ train_list = <<>>
    /\ valid_list = <<>>
    /\ train_subset = NoArray
    /\ valid_subset = NoArray
    /\ finished = <<>>

\* The model as constructed on lines 82-100: a fresh torch module is in
\* training mode, its parameters have no gradient yet, autograd is on.
TrainIdle ==
    /\ pc = "solve"
    /\ iteration = 0
    /\ training = TRUE
    /\ grad_enabled = TRUE
    /\ no_grad_prev = TRUE
    /\ grad = [p \in Params |-> None]
    /\ saved_grad = NoLocals
    /\ entry_grad = NoLocals
    /\ primal = FALSE
    /\ x_processed = "none"
    /\ forward = NoForward
    /\ n_loss = 0
    /\ attack_log = NoAttack
    /\ lambdas = <<0>>
    /\ rhs = <<"0.7">>
    /\ constraints = <<"adversarialLoss">>
    /\ entry_problem = <<lambdas, rhs, constraints>>
    /\ cur_adv_epoch = 0
    /\ hook_calls = 0
    /\ acc = 0
    /\ acc_adv = 0
    /\ eval_log = {}
    /\ output = "none"
    /\ hook_ret = FALSE
    /\ stopped_by_hook = FALSE
    /\ last_call = "none"
    /\ batch_idx = <<>>
    /\ batch_pos = 0

TestIdle ==
    /\ pcTest = "l207"
    /\ n_total = 0
    /\ acc_test = 0
    /\ acc_adv_test = [ii \in EpsIndex |-> 0]
    /\ success_adv = [ii \in EpsIndex |-> 0]
    /\ n_adv = [ii \in EpsIndex |-> 0]

\* Line 53: any labelling of the dataset; any global random state.
InitData ==
    /\ target \in [0 .. (DatasetSize - 1) -> Labels]
    /\ np_random \in 0 .. (RngModulus - 1)
    /\ DataIdle
    /\ TrainIdle
    /\ TestIdle
    /\ len_validset = 0
    /\ len_testset = 0
    /\ batch_size = 1

\* Line 180 on: validset holds n_valid indices per label.
InitTrain ==
    /\ target = [i \in 0 .. (DatasetSize - 1) |-> 0]
    /\ np_random = 0
    /\ DataIdle
    /\ TrainIdle
    /\ TestIdle
    /\ len_validset = NumLabels * n_valid
    /\ len_testset = 0
    /\ batch_size \in 1 .. MaxBatchSize

\* Line 202 on: any test set and batch size.
InitTest ==
    /\ target = [i \in 0 .. (DatasetSize - 1) |-> 0]
    /\ np_random = 0
    /\ DataIdle
    /\ TrainIdle
    /\ TestIdle
    /\ len_validset = 0
    /\ len_testset \in 1 .. MaxLen
    /\ batch_size \in 1 .. MaxBatchSize

NextData ==
    \/ D_LabelIdx
    \/ D_Permute
    \/ D_TrainList
    \/ D_TrainFlatten
    \/ D_ValidList
    \/ D_ValidFlatten
    \/ D_UseGlobalRandom
    \/ D_Rerun

NextTrain ==
    \/ ObjFun
    \/ AL_Enter
    \/ AL_Eval
    \/ AL_SaveGrad
    \/ AL_Attack
    \/ AL_Restore
    \/ AL_PrimalTrain
    \/ AL_PrimalForward
    \/ AL_DualNoGrad
    \/ AL_DualForward
    \/ AL_DualTrain
    \/ AL_Return
    \/ VH_Enter
    \/ VH_Eval
    \/ VH_Batch
    \/ VH_Train
    \/ VH_Report
    \/ VH_Return
    \/ S_Backward
    \/ S_DualStep
    \/ S_AfterHook

NextTest ==
    \/ T_Eval
    \/ T_Prepare
    \/ T_Batch
    \/ T_Report

SpecData == InitData /\ [][NextData]_vars
SpecTrain == InitTrain /\ [][NextTrain]_vars
SpecTest == InitTest /\ [][NextTest]_vars

----------------------------------------------------------------------------
(***************************************************************************)
(* Properties of the subset selection (under SpecData).                    *)
(***************************************************************************)
\* How many dataset indices an array built by Flatten holds, with repeats.
RECURSIVE TotalLen(_)
TotalLen(rows) == IF rows = <<>> THEN 0 ELSE Len(Head(rows)) + TotalLen(Tail(rows))

Entries(sub) == IF sub.ragged THEN TotalLen(sub.data) ELSE Len(sub.data)

ClassSize(label) == Cardinality({i \in DOMAIN target : target[i] = label})

EnoughSamples(label) == ClassSize(label) >= n_train + n_valid

IsAscending(s) == \A i, j \in DOMAIN s : i < j => s[i] < s[j]

\* C1: the training and validation pools are disjoint.  Once both per-class
\* lists exist, no dataset index lies in a training slice and in a validation
\* slice (of the same class or of two classes), and once both subsets are
\* flattened no index lies in both and none occurs twice within either.
C1_PoolsDisjoint ==
    /\ pcData \in {"l71", "done"} =>
          \A k, l \in 1 .. NumLabels :
              Range(train_list[k]) \cap Range(valid_list[l]) = {}
    /\ pcData = "done" =>
          /\ Indices(train_subset) \cap Indices(valid_subset) = {}
          /\ Cardinality(Indices(train_subset)) = Entries(train_subset)
          /\ Cardinality(Indices(valid_subset)) = Entries(valid_subset)

\* A finished selection in which every class filled both slices and the
\* permutation moved something.
C1_Witness ==
    /\ pcData = "done"
    /\ \A k \in 1 .. NumLabels :
          Len(train_list[k]) = n_train /\ Len(valid_list[k]) = n_valid
    /\ \E k \in 1 .. NumLabels : ~IsAscending(label_idx[k])
    /\ Indices(train_subset) \cap Indices(valid_subset) = {}

\* C3: the selection is label-stratified.  Every index a label contributes to
\* either pool carries that label; a label with at least n_train + n_valid
\* samples contributes exactly n_train indices to the training pool and
\* exactly n_valid to the validation pool; and when every label has that many
\* samples the flattened subsets hold NumLabels * n_train and
\* NumLabels * n_valid entries.
C3_Stratified ==
    /\ pcData \in {"l58", "l70", "l71", "done"} =>
          \A k \in 1 .. NumLabels :
              /\ \A i \in Range(train_list[k]) : target[i] = LabelRange[k]
              /\ EnoughSamples(LabelRange[k]) => Len(train_list[k]) = n_train
    /\ pcData \in {"l71", "done"} =>
          \A k \in 1 .. NumLabels :
              /\ \A i \in Range(valid_list[k]) : target[i] = LabelRange[k]
              /\ EnoughSamples(LabelRange[k]) => Len(valid_list[k]) = n_valid
    /\ (pcData = "done" /\ \A label \in Labels : EnoughSamples(label)) =>
          /\ ~train_subset.ragged
          /\ ~valid_subset.ragged
          /\ Len(train_subset.data) = NumLabels * n_train
          /\ Len(valid_subset.data) = NumLabels * n_valid
          /\ \A k \in 1 .. NumLabels :
                /\ \A m \in 1 .. n_train :
                      target[train_subset.data[(k - 1) * n_train + m]]
                          = LabelRange[k]
                /\ \A m \in 1 .. n_valid :
                      target[valid_subset.data[(k - 1) * n_valid + m]]
                          = LabelRange[k]

\* A finished selection over a dataset in which every label has enough
\* samples and some label has more than it needs.
C3_Witness ==
    /\ pcData = "done"
    /\ \A label \in Labels : EnoughSamples(label)
    /\ \E label \in Labels : ClassSize(label) > n_train + n_valid
    /\ Len(train_subset.data) = NumLabels * n_train
    /\ Len(valid_subset.data) = NumLabels * n_valid

\* C4: the selection is deterministic.  Two executions on the same labels
\* end with the same train_subset and the same valid_subset, whatever the
\* global random state of either execution was.
C4_Deterministic ==
    Len(finished) = 2 =>
        /\ finished[1].train_subset = finished[2].train_subset
        /\ finished[1].valid_subset = finished[2].valid_subset

\* Two finished executions whose global random states differ, over labels
\* for which the permutation moved something.
C4_Witness ==
    /\ Len(finished) = 2
    /\ finished[1].np_random # finished[2].np_random
    /\ finished[1].train_subset.data # <<>>
    /\ \E k \in 1 .. NumLabels : ~IsAscending(label_idx[k])
    /\ finished[1].train_subset = finished[2].train_subset

----------------------------------------------------------------------------
(***************************************************************************)
(* Properties of training (under SpecTrain).                               *)
(***************************************************************************)
InAdversarialLoss ==
    pc \in {"al_113", "al_116", "al_119", "al_122", "al_125", "al_127",
            "al_131", "al_133", "al_135"}

InHook == pc \in {"vh_155", "vh_156", "vh_171", "vh_178"}

BetweenCalls == pc \in {"solve", "hooked", "solved"}

\* C2: every adv_epoch-th call of validation_hook runs the attack on the
\* validation batches and prints the adversarial accuracy: when a call whose
\* number is a multiple of adv_epoch is about to return, it has attacked
\* every batch and its report is the adversarial one.
C2_EveryTenthCallAdversarial ==
    (pc = "vh_178" /\ hook_calls % adv_epoch = 0) =>
        /\ output = "adversarial"
        /\ \A e \in eval_log : e.attacked

\* C5: adversarialLoss has two modes.  The attack has produced the perturbed
\* input before the loss is computed; the loss is computed on the perturbed
\* input, once per call; with primal the forward pass runs with gradient
\* tracking on, without primal it runs with gradient tracking off.
C5_TwoModes ==
    /\ pc \in {"al_125", "al_127", "al_131"} =>
          attack_log.ran /\ x_processed = "adversarial" /\ n_loss = 0
    /\ pc \in {"al_133", "al_135"} =>
          /\ n_loss = 1
          /\ attack_log.ran
          /\ forward.input = "adversarial"
          /\ primal => forward.grad_enabled
          /\ ~primal => ~forward.grad_enabled

\* A dual-mode call about to return its loss, after a primal-mode call and a
\* validation pass have gone by.
C5_Witness ==
    /\ pc = "al_135"
    /\ ~primal
    /\ n_loss = 1
    /\ ~forward.grad_enabled
    /\ grad_enabled
    /\ hook_calls >= 1

\* C7: the attack leaves the accumulated gradients unchanged.  Right after
\* the restore step every parameter's .grad is what it was at entry to
\* adversarialLoss, in both modes.
C7_GradRestored ==
    pc = "al_125" => \A p \in Params : grad[p] = entry_grad[p]

\* The restore step has just run in a call that was entered with a gradient
\* accumulated and whose attack overwrote it.
C7_Witness ==
    /\ pc = "al_125"
    /\ attack_log.wrote
    /\ \E p \in Params : entry_grad[p] # None
    /\ grad = entry_grad

\* C8: the train/eval mode is restored around every attack and validation
\* pass.  Whenever obj_fun, adversarialLoss or validation_hook has returned
\* the model is in training mode; the attack inside adversarialLoss and every
\* forward pass of the validation pass run in evaluation mode; the forward
\* pass of adversarialLoss runs in training mode with primal and in
\* evaluation mode without.
C8_ModeRestored ==
    /\ (BetweenCalls /\ last_call # "none") => training
    /\ (InAdversarialLoss /\ attack_log.ran) => ~attack_log.training
    /\ pc = "vh_156" => ~training
    /\ \A e \in eval_log : ~e.training
    /\ pc \in {"al_133", "al_135"} => (forward.training <=> primal)

\* The solver is between calls after a validation pass, a dual-mode and a
\* primal-mode call have all returned.
C8_Witness ==
    /\ pc = "solve"
    /\ last_call = "adversarialLoss dual"
    /\ hook_calls >= 1
    /\ eval_log # {}
    /\ attack_log.ran
    /\ ~forward.training
    /\ training

\* C9: the stopping hook never stops training.  validation_hook returns
\* False on every call, so the solver is never stopped by it and runs all its
\* iterations, and from entry to return of the hook the dual variables, the
\* right-hand sides and the constraints are what they were at entry.
C9_HookNeverStops ==
    /\ pc = "hooked" => hook_ret = FALSE
    /\ ~stopped_by_hook
    /\ pc = "solved" => iteration = MaxIterations
    /\ (InHook \/ pc = "hooked") => <<lambdas, rhs, constraints>> = entry_problem

\* The solver has finished after the hook returned from each of its calls,
\* with the dual variables moved off their initial value.
C9_Witness ==
    /\ pc = "solved"
    /\ hook_calls = MaxIterations
    /\ iteration = MaxIterations
    /\ lambdas # <<0>>
    /\ output = "clean"
    /\ ~stopped_by_hook

----------------------------------------------------------------------------
(***************************************************************************)
(* Properties of the test sweep (under SpecTest).                          *)
(***************************************************************************)
\* C6: the batches cover every sample exactly once.  The boundaries start at
\* 0, end at the dataset length and grow strictly by at most the batch size;
\* inside the loop the samples counted so far are those below the current
\* boundary; after the loop n_total is the dataset length and each of the
\* NumEps magnitudes has accumulated over that many samples.
C6_BatchesCoverAll ==
    /\ pcTest \in {"l227", "done"} =>
          /\ batch_idx[1] = 0
          /\ batch_idx[Len(batch_idx)] = len_testset
          /\ \A k \in 1 .. NumBatches :
                /\ batch_idx[k] < batch_idx[k + 1]
                /\ batch_idx[k + 1] - batch_idx[k] <= batch_size
          /\ n_total = batch_idx[batch_pos]
    /\ pcTest = "done" =>
          /\ n_total = len_testset
          /\ DOMAIN acc_adv_test = EpsIndex
          /\ Cardinality(EpsIndex) = NumEps
          /\ \A ii \in EpsIndex :
                /\ n_adv[ii] = len_testset
                /\ acc_adv_test[ii] <= len_testset
                /\ success_adv[ii] <= len_testset
          /\ acc_test <= len_testset

\* A finished sweep of several batches, the last one shorter than the rest.
C6_Witness ==
    /\ pcTest = "done"
    /\ NumBatches >= 2
    /\ len_testset % batch_size # 0
    /\ n_total = len_testset

====
